---- MODULE Spec2Model ----
(***************************************************************************)
(* Rice price forecasting: the HTTP forecast handler (api/forecast.py) and *)
(* the dashboard's forecast section (app.py), with the forecast engine     *)
(* (mli_rice.modeling.multi_step_forecast) they both call.                 *)
(*                                                                         *)
(* The API serves each request on a worker thread (a plain `def` path      *)
(* operation), so requests interleave at every call of a memoized loader.  *)
(* The dashboard script runs top to bottom on every rerun.                 *)
(***************************************************************************)
EXTENDS Integers, Sequences, FiniteSets, TLC

VARIABLES
    rice_csv,     \* the cleaned regional history the data module loads
    artifact,     \* whether the trained model artifact exists on disk
    cache,        \* the lru_cache of each memoized loader of the API
    frames,       \* the DataFrame objects of the API process, by identity
    pc,           \* where each worker thread stands in the handler
    req,          \* the query parameters of the request a thread serves
    loc,          \* the handler's local references
    resp,         \* the response of the request a thread serves
    log,          \* per request: the functions called, the engine's months
    served,       \* requests received so far
    st_cache,     \* the dashboard's st.cache_resource slot of load_pipeline
    dash          \* what the dashboard's last rerun did

vars == <<rice_csv, artifact, cache, frames, pc, req, loc, resp, log, served,
          st_cache, dash>>

----------------------------------------------------------------------------
(* Bounds of the model *)

NThreads == 2

MaxRequests == 3

MaxSmallMonths == 2

Threads == 1..NThreads

----------------------------------------------------------------------------
(* Optional values: None is the empty tuple, a value v is <<v>> *)

None == <<>>

Some(v) == <<v>>

Max(a, b) == IF a >= b THEN a ELSE b

----------------------------------------------------------------------------
(* Timestamps and month arithmetic *)

Ts(y, m, d) == [year |-> y, month |-> m, day |-> d]

\* pandas orders timestamps by year, then month, then day
TsLeq(a, b) ==
    \/ a.year < b.year
    \/ a.year = b.year /\ a.month < b.month
    \/ a.year = b.year /\ a.month = b.month /\ a.day <= b.day

\* a timestamp advanced by k calendar months, its day kept
AddMonths(ts, k) ==
    LET ord == ts.year * 12 + (ts.month - 1) + k
    IN  Ts(ord \div 12, (ord % 12) + 1, ts.day)

MonthsBetweenNoYear(start, end) == end.month - start.month

MonthsBetween(start, end) ==
    (end.year - start.year) * 12 + (end.month - start.month)

\* strftime("%Y-%m-%d"): the text, as its three numbers
Strftime(ts) == <<ts.year, ts.month, ts.day>>

----------------------------------------------------------------------------
(* The regional history *)

\* region_monthly_average yields one row per region and month; the regions
\* in their stable (lexicographic) order
RegionOrder == <<"A", "B">>

Regions == {RegionOrder[i] : i \in 1..Len(RegionOrder)}

\* the largest lag the feature builder looks back
MinHistory == 2

BasePrice == [A |-> 40, B |-> 50]

MkSeries(r, last, n) ==
    [i \in 1..n |-> [date |-> AddMonths(last, i - n), price |-> BasePrice[r] + 3 * i]]

MkData(lastA, nA, lastB, nB) ==
    [r \in Regions |-> IF r = "A" THEN MkSeries(r, lastA, nA) ELSE MkSeries(r, lastB, nB)]

\* the histories the model starts from: both regions current; region B two
\* months behind (twice); region B current but too short for the feature
\* builder
Datasets ==
    { MkData(Ts(2024, 1, 1), 2, Ts(2024, 1, 1), 3),
      MkData(Ts(2024, 1, 1), 2, Ts(2023, 11, 1), 2),
      MkData(Ts(2023, 12, 1), 3, Ts(2023, 10, 1), 3),
      MkData(Ts(2023, 11, 1), 3, Ts(2023, 12, 1), 1) }

Dates(df) == UNION {{df[r][i].date : i \in 1..Len(df[r])} : r \in DOMAIN df}

\* region_df["date"].max()
MaxDate(df) == CHOOSE d \in Dates(df) : \A e \in Dates(df) : TsLeq(e, d)

LastPoint(series) == series[Len(series)]

----------------------------------------------------------------------------
(* The forecast engine, multi_step_forecast *)

\* a region can be forecast when its series covers the largest lag
Sufficient(series) == Len(series) >= MinHistory

\* the regions forecast, in stable order
ActiveRegions(df) == SelectSeq(RegionOrder, LAMBDA r : Sufficient(df[r]))

\* the fitted model on the features of a series: a fixed function of the
\* two latest prices (lag 1, lag 2) and the calendar month forecast
Predict(series) ==
    LET n == Len(series)
    IN  (series[n].price + series[n - 1].price) \div 2
          + (AddMonths(series[n].date, 1).month % 3)

PctChange(change, current) ==
    IF current = 0 THEN <<"NaN">> ELSE <<change, current>>

\* the record of one region at one step: the state before the append is
\* "current", the new point is "forecast"
ForecastRecord(df, base, r, step) ==
    LET cur   == LastPoint(df[r])
        price == Predict(df[r])
    IN  [region         |-> r,
         current_date   |-> cur.date,
         forecast_date  |-> AddMonths(LastPoint(base[r]).date, step),
         avg_price      |-> cur.price,
         forecast_price |-> price,
         price_change   |-> price - cur.price,
         pct_change     |-> PctChange(price - cur.price, cur.price),
         step           |-> step]

StepRecords(df, base, step) ==
    LET act == ActiveRegions(base)
    IN  [i \in 1..Len(act) |-> ForecastRecord(df, base, act[i], step)]

\* the series after a step: every forecast region gets its new point
StepAppend(df, base, step) ==
    [r \in DOMAIN df |->
        IF Sufficient(base[r])
        THEN Append(df[r], [date  |-> AddMonths(LastPoint(base[r]).date, step),
                            price |-> Predict(df[r])])
        ELSE df[r]]

RECURSIVE RunSteps(_, _, _, _, _, _)
RunSteps(df, base, step, months, forecasts, histories) ==
    IF step > months
    THEN [df |-> df, forecasts |-> forecasts, histories |-> histories]
    ELSE RunSteps(StepAppend(df, base, step), base, step + 1, months,
                  forecasts \o StepRecords(df, base, step),
                  Append(histories, df))

\* multi_step_forecast(region_df, pipeline, months, ...): the records in
\* (step, region) order, the per-step snapshots, and the frame as the run
\* leaves it (the forecast points are appended to the frame it is given)
MultiStepForecast(df, months) == RunSteps(df, df, 1, months, <<>>, <<>>)

----------------------------------------------------------------------------
(* The query parameters and their validation *)

MonthsLo == 1

MonthsHi == 24

YearLo == 2000

YearHi == 2100

MonthLo == 1

MonthHi == 12

MonthsOkFromZero(m) == m >= MonthsLo - 1 /\ m <= MonthsHi

MonthsOk(m) == m >= MonthsLo /\ m <= MonthsHi

TargetYearOk(y) == IF y = None THEN TRUE ELSE y[1] >= YearLo /\ y[1] <= YearHi

TargetMonthOk(m) == IF m = None THEN TRUE ELSE m[1] >= MonthLo /\ m[1] <= MonthHi

\* FastAPI validates the query before it calls the handler
ValidQuery(r) ==
    MonthsOk(r.months) /\ TargetYearOk(r.target_year) /\ TargetMonthOk(r.target_month)

Request(m, y, tm) == [months |-> m, target_year |-> y, target_month |-> tm]

MonthsInputs == (MonthsLo - 1 .. MaxSmallMonths) \cup {MonthsHi, MonthsHi + 1}

TargetYearInputs == {None} \cup {Some(y) : y \in {YearLo - 1, 2023, 2024, 2026, YearHi + 1}}

TargetMonthInputs == {None} \cup {Some(m) : m \in {MonthLo - 1, 1, 2, 12, MonthHi + 1}}

\* the requests of the single-thread specification
WideRequests ==
    {Request(m, y, tm) : m \in MonthsInputs, y \in TargetYearInputs, tm \in TargetMonthInputs}

\* the requests of the concurrent specification
NarrowRequests ==
    {Request(m, None, None) : m \in {MonthsLo - 1, MonthsLo, MonthsHi + 1}}
        \cup {Request(MonthsLo, None, Some(1)), Request(MonthsLo, Some(2024), Some(1))}

----------------------------------------------------------------------------
(* The handler's computations *)

PairingMalformed(r) == (r.target_year = None) # (r.target_month = None)

HasTarget(r) == r.target_year # None /\ r.target_month # None

TargetDate(r) ==
    IF HasTarget(r) THEN Some(Ts(r.target_year[1], r.target_month[1], 1)) ELSE None

Delta(r, last_observed) == MonthsBetween(last_observed, TargetDate(r)[1])

TargetTooEarly(r, last_observed) == HasTarget(r) /\ Delta(r, last_observed) < 1

MonthsToGenerate(r, last_observed) ==
    IF HasTarget(r) THEN Max(r.months, Delta(r, last_observed)) ELSE r.months

FilterAlways(forecasts, target_date) ==
    SelectSeq(forecasts, LAMBDA row : Some(row.forecast_date) = target_date)

FilterForecasts(forecasts, target_date) ==
    IF target_date # None
    THEN SelectSeq(forecasts, LAMBDA row : row.forecast_date = target_date[1])
    ELSE forecasts

ResultRow(row) ==
    [region         |-> row.region,
     current_date   |-> Strftime(row.current_date),
     forecast_date  |-> Strftime(row.forecast_date),
     current_price  |-> row.avg_price,
     forecast_price |-> row.forecast_price,
     price_change   |-> row.price_change,
     pct_change     |-> row.pct_change,
     step           |-> row.step]

Results(forecasts) == [i \in 1..Len(forecasts) |-> ResultRow(forecasts[i])]

Ok(r, last_observed, forecasts) ==
    LET results == Results(FilterForecasts(forecasts, TargetDate(r)))
    IN  [status            |-> 200,
         detail            |-> "",
         latest_observation |-> Strftime(last_observed),
         months_requested  |-> r.months,
         months_generated  |-> MonthsToGenerate(r, last_observed),
         target_date       |-> IF TargetDate(r) # None THEN Some(Strftime(TargetDate(r)[1])) ELSE None,
         result_count      |-> Len(results),
         results           |-> results]

Error(code, text) ==
    [status |-> code, detail |-> text, latest_observation |-> <<>>,
     months_requested |-> 0, months_generated |-> 0, target_date |-> None,
     result_count |-> 0, results |-> <<>>]

NoResp == Error(0, "")

----------------------------------------------------------------------------
(* The memoized loaders: lru_cache(maxsize=1) around a function without    *)
(* arguments. A call looks the slot up; on a miss it runs the function     *)
(* outside any lock and then writes the slot only if no other call has     *)
(* written it meanwhile. A call that raises writes nothing.                *)

CacheOrder == <<"history", "pipeline", "feature_config">>

CacheNames == {"history", "pipeline", "feature_config"}

Empty == <<>>

Raised == <<"RuntimeError">>

\* the k-th object of loader n alive at a time
Obj(n, k) == <<n, k>>

PcCall == [history |-> "get_region_history", pipeline |-> "get_pipeline",
           feature_config |-> "get_feature_config"]

PcLoad == [history |-> "load_rice_data", pipeline |-> "joblib_load",
           feature_config |-> "FeatureConfig"]

PcAfter == [history |-> "get_pipeline", pipeline |-> "get_feature_config",
            feature_config |-> "body"]

CacheStoreAlways(c, n, obj) == [c EXCEPT ![n] = obj]

CacheStore(c, n, obj) == IF c[n] = Empty THEN [c EXCEPT ![n] = obj] ELSE c

CacheAfterRaiseKept(c, n) == [c EXCEPT ![n] = Raised]

CacheAfterRaise(c, n) == c

\* get_region_history().copy(): the frame the handler works on
SharedFrame(t, ref) == ref

WorkingFrame(t, ref) == <<"copy", t>>

NoFrame == <<>>

FrameIds == {<<k, t>> : k \in {"history", "copy"}, t \in Threads}

Live(c, l) == {c["history"]} \cup {l[t].history : t \in Threads}

\* the frames still referenced, by the cache or by a handler's region_df
Collect(f, c, l) == [id \in DOMAIN f |-> IF id \in Live(c, l) THEN f[id] ELSE NoFrame]


NoLoc == [history |-> None, pipeline |-> None, feature_config |-> None]

NoLog == [calls |-> {}, engine_months |-> None, artifact_seen |-> None]

NoReq == Request(0, None, None)

Called(l, f) == [l EXCEPT !.calls = @ \cup {f}]

\* the handler's reference to what get_<n>() returned
Bind(t, n, ref) ==
    IF n = "history" THEN WorkingFrame(t, ref) ELSE ref

\* the frames once the handler holds its reference to the history `ref`
Copied(t, f, ref) == [f EXCEPT ![WorkingFrame(t, ref)] = f[ref]]

----------------------------------------------------------------------------
(* The API: one request on thread t *)

\* the objects of loader n that something still refers to
InUse(n) ==
    {cache[n]} \cup {loc[t][n] : t \in Threads}
        \cup {id \in DOMAIN frames : frames[id] # NoFrame}

\* the object a run of loader n creates: the first one not in use
NewObj(n) ==
    Obj(n, CHOOSE k \in Threads :
              /\ Obj(n, k) \notin InUse(n)
              /\ \A j \in Threads : j < k => Obj(n, j) \in InUse(n))

\* the pool hands a request to its first idle worker
FirstIdle(t) == pc[t] = "idle" /\ \A u \in Threads : u < t => pc[u] # "idle"

\* what no step of the API changes
outside == <<rice_csv, artifact, st_cache, dash>>

\* the handler returns or raises: its locals are gone
Finished(t, response) ==
    /\ pc' = [pc EXCEPT ![t] = "done"]
    /\ resp' = [resp EXCEPT ![t] = response]
    /\ loc' = [loc EXCEPT ![t] = NoLoc]

\* the query passes validation and the handler is entered
Accept(t, R) ==
    /\ FirstIdle(t)
    /\ served < MaxRequests
    /\ \E r \in R :
        /\ ValidQuery(r)
        /\ req' = [req EXCEPT ![t] = r]
    /\ pc' = [pc EXCEPT ![t] = PcCall["history"]]
    /\ served' = served + 1
    /\ UNCHANGED <<cache, frames, loc, resp, log>>
    /\ UNCHANGED outside

\* the query fails validation: 422, the handler is never entered
RejectQuery(t, R) ==
    /\ FirstIdle(t)
    /\ served < MaxRequests
    /\ \E r \in R :
        /\ ~ValidQuery(r)
        /\ req' = [req EXCEPT ![t] = r]
    /\ Finished(t, Error(422, "validation"))
    /\ served' = served + 1
    /\ UNCHANGED <<cache, frames, log>>
    /\ UNCHANGED outside

\* get_<n>() finds its slot written
CacheHit(t, n) ==
    /\ pc[t] = PcCall[n]
    /\ cache[n] # Empty
    /\ IF cache[n] = Raised
       THEN /\ Finished(t, Error(500, "RuntimeError"))
            /\ log' = [log EXCEPT ![t] = Called(@, PcCall[n])]
            /\ frames' = Collect(frames, cache, loc')
       ELSE /\ pc' = [pc EXCEPT ![t] = PcAfter[n]]
            /\ loc' = [loc EXCEPT ![t][n] = Bind(t, n, cache[n])]
            /\ log' = [log EXCEPT ![t] = Called(@, PcCall[n])]
            /\ frames' = IF n = "history" THEN Copied(t, frames, cache[n]) ELSE frames
            /\ UNCHANGED resp
    /\ UNCHANGED <<cache, req, served>>
    /\ UNCHANGED outside

\* get_<n>() finds its slot empty and starts the loader
CacheMiss(t, n) ==
    /\ pc[t] = PcCall[n]
    /\ cache[n] = Empty
    /\ pc' = [pc EXCEPT ![t] = PcLoad[n]]
    /\ log' = [log EXCEPT ![t] = Called(@, PcCall[n])]
    /\ UNCHANGED <<cache, frames, req, loc, resp, served>>
    /\ UNCHANGED outside

\* the loader returns: the slot is written unless another call wrote it,
\* and the caller gets the object its own run made
LoadDone(t, n) ==
    /\ pc[t] = PcLoad[n]
    /\ n = "pipeline" => artifact
    /\ LET obj    == NewObj(n)
           loaded == IF n = "history" THEN [frames EXCEPT ![obj] = rice_csv] ELSE frames
       IN  /\ cache' = CacheStore(cache, n, obj)
           /\ loc' = [loc EXCEPT ![t][n] = Bind(t, n, obj)]
           /\ frames' = IF n = "history"
                         THEN Collect(Copied(t, loaded, obj), cache', loc')
                         ELSE frames
           /\ log' = [log EXCEPT ![t].artifact_seen =
                                    IF n = "pipeline" THEN Some(TRUE) ELSE @]
    /\ pc' = [pc EXCEPT ![t] = PcAfter[n]]
    /\ UNCHANGED <<req, resp, served>>
    /\ UNCHANGED outside

\* get_pipeline finds no artifact and raises: the request ends with 500
LoadRaise(t) ==
    /\ pc[t] = PcLoad["pipeline"]
    /\ ~artifact
    /\ cache' = CacheAfterRaise(cache, "pipeline")
    /\ log' = [log EXCEPT ![t].artifact_seen = Some(FALSE)]
    /\ Finished(t, Error(500, "RuntimeError"))
    /\ frames' = Collect(frames, cache', loc')
    /\ UNCHANGED <<req, served>>
    /\ UNCHANGED outside

\* only one of target_year, target_month is given: 400
RejectPairing(t) ==
    /\ pc[t] = "body"
    /\ PairingMalformed(req[t])
    /\ Finished(t, Error(400, "Provide both target_year and target_month, or omit both."))
    /\ frames' = Collect(frames, cache, loc')
    /\ UNCHANGED <<cache, req, log, served>>
    /\ UNCHANGED outside

\* the target month is not after the latest observation: 400
RejectTarget(t) ==
    /\ pc[t] = "body"
    /\ ~PairingMalformed(req[t])
    /\ TargetTooEarly(req[t], MaxDate(frames[loc[t].history]))
    /\ Finished(t, Error(400, "Target must be after the latest observation"))
    /\ frames' = Collect(frames, cache, loc')
    /\ UNCHANGED <<cache, req, log, served>>
    /\ UNCHANGED outside

\* the engine runs on the handler's frame and the response is built
RunForecast(t) ==
    /\ pc[t] = "body"
    /\ ~PairingMalformed(req[t])
    /\ LET region_df     == frames[loc[t].history]
           last_observed == MaxDate(region_df)
           months        == MonthsToGenerate(req[t], last_observed)
       IN  /\ ~TargetTooEarly(req[t], last_observed)
           /\ \E run \in {MultiStepForecast(region_df, months)} :
                /\ log' = [log EXCEPT ![t] =
                             [Called(@, "multi_step_forecast") EXCEPT !.engine_months = Some(months)]]
                /\ Finished(t, Ok(req[t], last_observed, run.forecasts))
                /\ frames' = Collect([frames EXCEPT ![loc[t].history] = run.df], cache, loc')
    /\ UNCHANGED <<cache, req, served>>
    /\ UNCHANGED outside

\* the response is sent and the thread takes the next request
Finish(t) ==
    /\ pc[t] = "done"
    /\ pc' = [pc EXCEPT ![t] = "idle"]
    /\ req' = [req EXCEPT ![t] = NoReq]
    /\ resp' = [resp EXCEPT ![t] = NoResp]
    /\ log' = [log EXCEPT ![t] = NoLog]
    /\ UNCHANGED <<cache, frames, loc, served>>
    /\ UNCHANGED outside

ApiStep(t, R) ==
    \/ Accept(t, R)
    \/ RejectQuery(t, R)
    \/ \E n \in CacheNames : CacheHit(t, n)
    \/ \E n \in CacheNames : CacheMiss(t, n)
    \/ \E n \in CacheNames : LoadDone(t, n)
    \/ LoadRaise(t)
    \/ RejectPairing(t)
    \/ RejectTarget(t)
    \/ RunForecast(t)
    \/ Finish(t)

\* the training CLI writes the model artifact
TrainModel ==
    /\ ~artifact
    /\ artifact' = TRUE
    /\ UNCHANGED <<rice_csv, cache, frames, pc, req, loc, resp, log, served,
                   st_cache, dash>>

----------------------------------------------------------------------------
(* The dashboard: one rerun of the script, main() to layout_forecasts      *)

SliderLo == 1

SliderHi == 6

\* load_pipeline under st.cache_resource: the first return value, None
\* included, is kept for every later rerun
StResource(slot, exists) ==
    IF slot = "unset" THEN (IF exists THEN "pipeline" ELSE "None") ELSE slot

\* a Python list read at index i: <<value>>, or None for an IndexError
PyIndex(seq, i) ==
    IF i >= 0 /\ i < Len(seq) THEN Some(seq[i + 1])
    ELSE IF i < 0 /\ -i <= Len(seq) THEN Some(seq[Len(seq) + i + 1])
    ELSE None

HistoryIndexNext(selected_step) == selected_step

HistoryIndex(selected_step) == selected_step - 1

StepOptions(predictions) == {predictions[i].step : i \in 1..Len(predictions)}

SelectedPredictions(predictions, selected_step) ==
    SelectSeq(predictions, LAMBDA row : row.step = selected_step)

NoRun ==
    [outcome |-> "none", artifact_at_run |-> FALSE, months |-> 0,
     engine_called |-> FALSE, advisories_called |-> FALSE,
     step_options |-> {}, selected_step |-> 0, history_index |-> 0,
     history_for_step |-> <<>>, selected_predictions |-> <<>>]

\* pipeline is None: the warning is shown and layout_forecasts returns
DashWarning ==
    /\ StResource(st_cache, artifact) = "None"
    /\ st_cache' = StResource(st_cache, artifact)
    /\ dash' = [NoRun EXCEPT !.outcome = "warning", !.artifact_at_run = artifact]
    /\ UNCHANGED <<rice_csv, artifact, cache, frames, pc, req, loc, resp, log,
                   served>>

\* the forecast section: the slider's months, the engine, the selected
\* step, its history snapshot and its records handed to generate_advisories
DashForecast ==
    /\ StResource(st_cache, artifact) = "pipeline"
    /\ st_cache' = StResource(st_cache, artifact)
    /\ \E m \in SliderLo..SliderHi : \E run \in {MultiStepForecast(rice_csv, m)} :
        LET options == StepOptions(run.forecasts)
            ran     == [NoRun EXCEPT !.artifact_at_run = artifact, !.months = m,
                                     !.engine_called = TRUE, !.step_options = options]
        IN  IF options = {}
            THEN dash' = [ran EXCEPT !.outcome = "TypeError"]
            ELSE \E s \in options :
                    LET snap == PyIndex(run.histories, HistoryIndex(s))
                    IN  IF snap = None
                        THEN dash' = [ran EXCEPT !.outcome = "IndexError",
                                                 !.selected_step = s,
                                                 !.history_index = HistoryIndex(s)]
                        ELSE dash' = [ran EXCEPT
                                        !.outcome = "advisories",
                                        !.advisories_called = TRUE,
                                        !.selected_step = s,
                                        !.history_index = HistoryIndex(s),
                                        !.history_for_step = snap[1],
                                        !.selected_predictions =
                                            SelectedPredictions(run.forecasts, s)]
    /\ UNCHANGED <<rice_csv, artifact, cache, frames, pc, req, loc, resp, log,
                   served>>

----------------------------------------------------------------------------
(* Specifications *)

Init ==
    /\ rice_csv \in Datasets
    /\ artifact \in BOOLEAN
    /\ cache = [n \in CacheNames |-> Empty]
    /\ frames = [id \in FrameIds |-> NoFrame]
    /\ pc = [t \in Threads |-> "idle"]
    /\ req = [t \in Threads |-> NoReq]
    /\ loc = [t \in Threads |-> NoLoc]
    /\ resp = [t \in Threads |-> NoResp]
    /\ log = [t \in Threads |-> NoLog]
    /\ served = 0
    /\ st_cache = "unset"
    /\ dash = NoRun

\* the API under concurrent requests
Next ==
    \/ \E t \in Threads : ApiStep(t, NarrowRequests)
    \/ TrainModel

\* the concurrent API starts from the history in which region B is behind
ConcInit == Init /\ rice_csv = MkData(Ts(2024, 1, 1), 2, Ts(2023, 11, 1), 2)

Spec == ConcInit /\ [][Next]_vars

\* the API serving one request at a time, over the wide range of queries
SeqNext ==
    \/ ApiStep(1, WideRequests)
    \/ TrainModel

SeqSpec == Init /\ [][SeqNext]_vars

\* the dashboard alone
DashNext ==
    \/ DashWarning
    \/ DashForecast
    \/ TrainModel

DashSpec == Init /\ [][DashNext]_vars

\* the API and the dashboard beside each other, sharing the artifact
SiteNext ==
    \/ ApiStep(1, NarrowRequests)
    \/ DashWarning
    \/ DashForecast
    \/ TrainModel

SiteSpec == Init /\ [][SiteNext]_vars

----------------------------------------------------------------------------
(* Properties *)

Done(t) == pc[t] = "done"

EngineCalled(t) == "multi_step_forecast" \in log[t].calls

\* a month as a count of months, from its year and month alone
Ordinal(ts) == ts.year * 12 + ts.month

\* the months from the latest observation of the loaded history to the
\* target month of request r
TrueDelta(r) == Ordinal(TargetDate(r)[1]) - Ordinal(MaxDate(rice_csv))

DayInputs == {1, 15, 31}

\* C1: every run of the engine the handler starts is for a number of months
\* within 1..24, for every query the handler accepts.
C1_EngineMonthsInBound ==
    \A t \in Threads :
        log[t].engine_months # None =>
            log[t].engine_months[1] \in MonthsLo..MonthsHi

\* C2: a query that passes validation and gives exactly one of target_year,
\* target_month ends with 400 and without the engine, whatever the state of
\* the caches and of the model artifact.
C2_PairingAlways400 ==
    \A t \in Threads :
        (Done(t) /\ ValidQuery(req[t]) /\ PairingMalformed(req[t])) =>
            (resp[t].status = 400 /\ ~EngineCalled(t))

\* C3: a request with months outside 1..24 is rejected at once: none of
\* get_region_history, get_pipeline, multi_step_forecast is called for it,
\* and the step that rejects it leaves the caches and the frames as they
\* were.
C3_OutOfBoundUntouched ==
    /\ [](\A t \in Threads :
            (pc[t] # "idle" /\ ~(req[t].months \in MonthsLo..MonthsHi)) =>
                /\ Done(t)
                /\ resp[t].status = 422
                /\ resp[t].results = <<>>
                /\ log[t].calls = {})
    /\ [][\A t \in Threads :
            (pc[t] = "idle" /\ pc'[t] # "idle"
                /\ ~(req'[t].months \in MonthsLo..MonthsHi)) =>
                (cache' = cache /\ frames' = frames)]_vars

C3_Witness ==
    \E t, u \in Threads :
        /\ Done(t) /\ req[t].months = MonthsLo - 1 /\ resp[t].status = 422
        /\ Done(u) /\ req[u].months = MonthsHi + 1 /\ resp[u].status = 422
        /\ cache["history"] # Empty
        /\ cache["pipeline"] # Empty

\* C4: with a target month delta >= 1 months after the latest observation
\* the engine runs max(months, delta) steps and the response holds one
\* record per region with sufficient history, in region order, each at the
\* target month with step = delta.
C4_OneRecordPerRegion ==
    \A t \in Threads :
        (Done(t) /\ resp[t].status = 200 /\ HasTarget(req[t])) =>
            LET act == ActiveRegions(rice_csv)
                res == resp[t].results
            IN  /\ resp[t].months_generated = Max(req[t].months, TrueDelta(req[t]))
                /\ Len(res) = Len(act)
                /\ \A i \in 1..Len(res) :
                    /\ i <= Len(act) => res[i].region = act[i]
                    /\ res[i].step = TrueDelta(req[t])
                    /\ res[i].forecast_date = Strftime(TargetDate(req[t])[1])

\* C5: without a target and with months = m the response holds exactly
\* m x (regions with sufficient history) records in (step, region) order,
\* every region's steps being 1..m, result_count is the length of the list
\* and months_generated = months_requested = m.
C5_AllRecordsInOrder ==
    \A t \in Threads :
        (Done(t) /\ resp[t].status = 200 /\ ~HasTarget(req[t])) =>
            LET m   == req[t].months
                act == ActiveRegions(rice_csv)
                n   == Len(act)
                res == resp[t].results
            IN  /\ n > 0
                /\ Len(res) = m * n
                /\ resp[t].result_count = Len(res)
                /\ resp[t].months_requested = m
                /\ resp[t].months_generated = m
                /\ resp[t].target_date = None
                /\ \A i \in 1..Len(res) :
                    /\ res[i].step = ((i - 1) \div n) + 1
                    /\ res[i].region = act[((i - 1) % n) + 1]
                    /\ res[i].forecast_date =
                         Strftime(AddMonths(LastPoint(rice_csv[res[i].region]).date,
                                            res[i].step))
                /\ \A k \in 1..n :
                    /\ {res[i].step : i \in {j \in 1..Len(res) : res[j].region = act[k]}}
                         = 1..m
                    /\ Cardinality({j \in 1..Len(res) : res[j].region = act[k]}) = m

C5_Witness ==
    \E t \in Threads :
        /\ Done(t) /\ resp[t].status = 200 /\ ~HasTarget(req[t])
        /\ req[t].months = MonthsHi
        /\ Len(ActiveRegions(rice_csv)) = 2
        /\ resp[t].result_count = 2 * MonthsHi

\* C6: two successful requests with the same parameters get the same
\* response, whatever was served before or between them, and the cached
\* history never shows a forecast point.
C6_SameRequestSameResponse ==
    /\ \A t, u \in Threads :
        (Done(t) /\ Done(u) /\ resp[t].status = 200 /\ resp[u].status = 200
            /\ req[t] = req[u]) => resp[t] = resp[u]
    /\ cache["history"] # Empty => frames[cache["history"]] = rice_csv

C6_Witness ==
    \E t, u \in Threads :
        /\ t # u
        /\ Done(t) /\ Done(u) /\ resp[t].status = 200 /\ resp[u].status = 200
        /\ req[t] = req[u]
        /\ resp[t].result_count > 0
        /\ served = MaxRequests

\* C7 (amended): when the model artifact is missing the API request that
\* checks it ends with 500, without the engine and without records, and the
\* failure is not kept: a 500 is only ever the answer to a request that
\* itself found the artifact missing. The dashboard shows the warning and
\* runs neither the engine nor the advisories whenever load_pipeline gave
\* None.
C7_PredictorUnavailable ==
    /\ \A t \in Threads :
        /\ log[t].artifact_seen = Some(FALSE) =>
            /\ Done(t)
            /\ resp[t].status = 500
            /\ resp[t].results = <<>>
            /\ ~EngineCalled(t)
        /\ (Done(t) /\ resp[t].status = 500) => log[t].artifact_seen = Some(FALSE)
        /\ EngineCalled(t) => log[t].artifact_seen # Some(FALSE)
    /\ cache["pipeline"] # Raised
    /\ st_cache = "None" =>
        (dash.outcome = "warning" /\ ~dash.engine_called /\ ~dash.advisories_called)
    /\ dash.outcome = "warning" => (~dash.engine_called /\ ~dash.advisories_called)
    /\ dash.engine_called => st_cache = "pipeline"

C7_Witness ==
    /\ \E t \in Threads : Done(t) /\ resp[t].status = 500
    /\ dash.outcome = "warning"
    /\ artifact

\* C7 as claimed: in the dashboard too the failure is not kept, so a rerun
\* only warns when the artifact is missing at that rerun.
C7_FailureNeverKept ==
    /\ C7_PredictorUnavailable
    /\ dash.outcome = "warning" => ~dash.artifact_at_run

\* C8 as claimed: each loader completes successfully at most once, so a
\* loader never completes for a slot that is already written.
C8_LoadedAtMostOnce ==
    [][\A t \in Threads : \A n \in CacheNames :
        (pc[t] = PcLoad[n] /\ pc'[t] = PcAfter[n]) => cache[n] = Empty]_vars

\* C8 (amended): a loader runs on first use and not before; its slot is
\* written at most once, by the first run that completes, and never
\* emptied or replaced; a call that finds the slot written gets the slot's
\* value; a call that missed gets the object of its own run, so the loader
\* completes once per call that missed.
C8_StoredOnceNeverReplaced ==
    /\ [](\A n \in CacheNames :
            /\ served = 0 => cache[n] = Empty
            /\ cache[n] \in {Empty, Obj(n, 1)}
            /\ \A t \in Threads :
                /\ pc[t] = PcAfter[n] => cache[n] # Empty
                /\ (n # "history" /\ loc[t][n] # None) =>
                        loc[t][n] \in {cache[n]} \cup {Obj(n, k) : k \in 2..NThreads}
                /\ (n = "history" /\ loc[t][n] # None) =>
                        frames[loc[t][n]] = frames[cache[n]])
    /\ [][\A n \in CacheNames :
            /\ cache[n] # Empty => cache'[n] = cache[n]
            /\ \A t \in Threads :
                (pc[t] = PcLoad[n] /\ pc'[t] = PcAfter[n]) =>
                    /\ cache'[n] # Empty
                    /\ cache[n] = Empty => cache'[n] = loc'[t][n] \/ n = "history"]_vars

C8_Witness ==
    \E t, u \in Threads :
        /\ pc[t] = "body" /\ pc[u] = "body"
        /\ loc[t].pipeline = cache["pipeline"]
        /\ loc[u].pipeline \notin {None, cache["pipeline"]}
        /\ log[t].artifact_seen = None

\* C9: for a dashboard run of m months and the step s selected, the
\* advisories get the snapshot at index s - 1, which lies in 0..m-1, is the
\* one retained for step s (the history with the points of the steps before
\* s) and holds no point later than step s, together with exactly the
\* records of step s.
C9_SnapshotOfSelectedStep ==
    dash.engine_called =>
        LET m   == dash.months
            s   == dash.selected_step
            act == ActiveRegions(rice_csv)
        IN  /\ m \in SliderLo..SliderHi
            /\ dash.step_options = 1..m
            /\ dash.outcome = "advisories"
            /\ dash.advisories_called
            /\ s \in dash.step_options
            /\ dash.history_index \in 0..(m - 1)
            /\ DOMAIN dash.history_for_step = Regions
            /\ \A r \in Regions :
                LET snap == dash.history_for_step[r]
                    base == rice_csv[r]
                IN  /\ Len(snap) = Len(base) + (IF Sufficient(base) THEN s - 1 ELSE 0)
                    /\ SubSeq(snap, 1, Len(base)) = base
                    /\ \A i \in 1..Len(snap) :
                        TsLeq(snap[i].date, AddMonths(LastPoint(base).date, s))
                    /\ \A i \in (Len(base) + 1)..Len(snap) :
                        snap[i].date = AddMonths(LastPoint(base).date, i - Len(base))
            /\ Len(dash.selected_predictions) = Len(act)
            /\ \A i \in 1..Len(dash.selected_predictions) :
                /\ dash.selected_predictions[i].step = s
                /\ dash.selected_predictions[i].region = act[i]

C9_Witness ==
    /\ dash.outcome = "advisories"
    /\ dash.months = SliderHi
    /\ dash.selected_step = SliderHi
    /\ Len(dash.selected_predictions) = 2

====
